---- MODULE Spec2Model ----
(***************************************************************************)
(* A model of backend/app.py of the payroll system: the expense table with *)
(* its recurring-expense rollover (create_expense,                          *)
(* process_recurring_expenses), the workplaces and shifts with the shift   *)
(* pay calculation (create_workplace, update_workplace, create_shift,      *)
(* update_shift, calculate_shift_pay) and the tax calculator               *)
(* (calculate_tax).                                                        *)
(*                                                                         *)
(* Text dates.  The code keeps dates as '%Y-%m-%d' text.  A date text is    *)
(* modelled by its three numeric fields <<y, m, d>>; the text need not     *)
(* name a calendar date (<<2024, 2, 30>> is "2024-02-30", which strptime   *)
(* rejects).  SQL NULL / Python None in a date column is <<>>.  strftime   *)
(* writes zero-padded fields, so comparing two strftime outputs as text    *)
(* (what SQL <= and Python > do on them) is the field-wise lexicographic   *)
(* comparison StrLE.                                                       *)
(*                                                                         *)
(* Numbers.  Rates, hours and multipliers are exact: a multiplier is held  *)
(* in hundredths (150 is 1.5), hours in tenths (80 is 8.0 h) and a pay     *)
(* amount in thousandths of a currency unit, so that no float rounding is  *)
(* modelled.  An annual income is a number of whole dollars, a tax amount  *)
(* before rounding is in thousandths of a dollar and a rounded one in      *)
(* cents.  NULL in a REAL column is NullNum.                               *)
(***************************************************************************)
EXTENDS Integers, Sequences, FiniteSets, TLC

VARIABLES
    today,        \* index into Clock: what datetime.now() reads
    expenses,     \* the rows of table expenses
    nextExpId,    \* the id the next INSERT INTO expenses gets (lastrowid + 1)
    emitted,      \* history: one event per materialising INSERT of a rollover pass
    passNo,       \* history: the number of rollover passes begun so far
    txn,          \* per request worker: a rollover pass between its SELECT and its commit
    resp,         \* the last handler's HTTP response (and, as history, the date it read)
    workplaces,   \* the rows of table workplaces
    nextWpId,     \* the id the next INSERT INTO workplaces gets
    shifts,       \* the rows of table shifts
    nextShiftId,  \* the id the next INSERT INTO shifts gets
    calc,         \* history: the call of calculate_shift_pay the last create_shift made
    taxCall,      \* history: the last call of calculate_tax and its answer
    taxPrev,      \* history: the call of calculate_tax before the last
    goals,        \* the rows of table goals
    nextGoalId,   \* the id the next INSERT INTO goals gets
    categories,   \* the rows of table categories
    nextCatId,    \* the id the next INSERT INTO categories gets
    milestones    \* the list the last get_milestones answered

expVars == <<today, expenses, nextExpId, emitted, passNo, txn>>

payVars == <<workplaces, nextWpId, shifts, nextShiftId, calc>>

taxVars == <<taxCall, taxPrev>>

goalVars == <<goals, nextGoalId, categories, nextCatId, milestones>>

vars == <<today, expenses, nextExpId, emitted, passNo, txn, resp,
          workplaces, nextWpId, shifts, nextShiftId, calc, taxCall, taxPrev,
          goals, nextGoalId, categories, nextCatId, milestones>>

\* ------------------------------------------------------------------ bounds

\* The number of POST /api/expenses requests of a behaviour.
MaxCreates == 2

\* The number of rollover passes of a behaviour.
MaxPasses == 2

\* The number of rollover passes of a behaviour whose passes overlap.
MaxConcPasses == 2

\* The number of rows of table workplaces.
MaxWorkplaces == 2

\* The number of rows of table shifts.
MaxShifts == 1

\* The number of rows of table goals in the milestones specification.
MaxGoals == 3

\* The number of passes of the racing workers.
MaxRacePasses == 3

\* The number of records the users create in the ownership specification.
MaxRecords == 2

\* ------------------------------------------------------------- date values

\* SQL NULL / Python None in a text column.
Null == <<>>

\* calendar.isleap, as datetime uses it.
IsLeap(y) == (y % 4 = 0 /\ y % 100 # 0) \/ y % 400 = 0

\* The number of days of month m of year y.
DaysInMonth(y, m) ==
    IF m = 2 THEN (IF IsLeap(y) THEN 29 ELSE 28)
    ELSE IF m \in {4, 6, 9, 11} THEN 30 ELSE 31

\* datetime.strptime(s, '%Y-%m-%d') succeeds: the text names a calendar date.
Parses(s) ==
    /\ Len(s) = 3
    /\ s[2] \in 1..12
    /\ s[3] \in 1..DaysInMonth(s[1], s[2])

\* Text comparison a <= b of two strftime('%Y-%m-%d') outputs.
StrLE(a, b) ==
    \/ a[1] < b[1]
    \/ a[1] = b[1] /\ a[2] < b[2]
    \/ a[1] = b[1] /\ a[2] = b[2] /\ a[3] <= b[3]

\* Text comparison a > b.
StrGT(a, b) == ~StrLE(a, b)

\* The day after d.
NextDay(d) ==
    IF d[3] < DaysInMonth(d[1], d[2]) THEN <<d[1], d[2], d[3] + 1>>
    ELSE IF d[2] < 12 THEN <<d[1], d[2] + 1, 1>>
    ELSE <<d[1] + 1, 1, 1>>

RECURSIVE AddDays(_, _)
\* d + timedelta(days=n)
AddDays(d, n) == IF n = 0 THEN d ELSE AddDays(NextDay(d), n - 1)

\* d + timedelta(weeks=1)
timedelta_weeks1(d) == AddDays(d, 7)

\* d + relativedelta(months=1): the next month, the day clamped to its length.
relativedelta_months1(d) ==
    LET y == IF d[2] = 12 THEN d[1] + 1 ELSE d[1]
        m == IF d[2] = 12 THEN 1 ELSE d[2] + 1
        last == DaysInMonth(y, m)
    IN  <<y, m, IF d[3] > last THEN last ELSE d[3]>>

\* d + relativedelta(years=1): the next year, 29 February clamped to the 28th.
relativedelta_years1(d) ==
    LET last == DaysInMonth(d[1] + 1, d[2])
    IN  <<d[1] + 1, d[2], IF d[3] > last THEN last ELSE d[3]>>

\* ------------------------------------------------------------------ inputs

Users == {1, 2}

\* The request workers that may run a rollover pass at the same time.
Workers == {1, 2}

\* The dates datetime.now() passes through, in order.
Clock == << <<2024, 1, 20>>, <<2025, 3, 1>>, <<2026, 2, 20>>, <<2026, 4, 1>> >>

Now == Clock[today]

\* A key missing from the request's JSON.
Absent == "ABSENT"

RecurrenceTypes == {"weekly", "monthly", "yearly"}

\* A request body of POST /api/expenses.
Req(u, amt, due, rec, rt, endd) ==
    [user |-> u, category |-> "rent", amount |-> amt, due_date |-> due,
     is_recurring |-> rec, recurrence_type |-> rt, recurrence_end_date |-> endd]

\* The request bodies the model sends: every recurrence type, a missing
\* recurrence_type, a missing and an unparseable due_date, end dates, the two
\* users, a non-recurring expense and an invalid amount.
ExpenseRequests ==
    { Req(1, 50, <<2026, 1, 15>>, TRUE, "monthly", Null),
      Req(1, 50, <<2026, 1, 15>>, TRUE, Absent, Null),
      Req(1, 50, <<2023, 12, 28>>, TRUE, "weekly", <<2024, 1, 10>>),
      Req(1, 50, <<2024, 2, 29>>, TRUE, "yearly", Null),
      Req(2, 50, <<2024, 1, 31>>, TRUE, "monthly", <<2024, 3, 15>>),
      Req(2, 50, Null, TRUE, "weekly", Null),
      Req(1, 50, <<2024, 2, 30>>, TRUE, "monthly", Null),
      Req(1, 50, <<2023, 12, 28>>, TRUE, "daily", Null),
      Req(1, 50, <<2023, 12, 28>>, FALSE, Absent, Null),
      Req(1, 0, <<2023, 12, 28>>, TRUE, "monthly", Null) }

\* A handler's response: its status and created_count, with the user it ran as
\* and the date datetime.now() gave it.
Response(op, status, u, n) ==
    [op |-> op, status |-> status, user |-> u, created_count |-> n, at |-> Now]

\* ------------------------------------------------------------ create_expense

\* validate_expense_data: the errors list is empty.
validate_expense_data(data) ==
    /\ data.category # ""
    /\ data.amount > 0

\* first_next_occurrence with the first occurrence left at the anchor date.
first_next_occurrence_anchor(data) ==
    IF ~data.is_recurring THEN Null
    ELSE LET text == IF data.due_date = Null THEN Now ELSE data.due_date
             recurrence_type == IF data.recurrence_type = Absent THEN "monthly"
                                ELSE data.recurrence_type
         IN  IF ~Parses(text) THEN Null
             ELSE IF recurrence_type \in RecurrenceTypes THEN text
             ELSE Null

\* The next_occurrence create_expense computes for a request.
first_next_occurrence(data) ==
    IF ~data.is_recurring THEN Null
    ELSE LET text == IF data.due_date = Null THEN Now ELSE data.due_date
             recurrence_type == IF data.recurrence_type = Absent THEN "monthly"
                                ELSE data.recurrence_type
         IN  IF ~Parses(text) THEN Null
             ELSE IF recurrence_type = "weekly" THEN timedelta_weeks1(text)
             ELSE IF recurrence_type = "monthly" THEN relativedelta_months1(text)
             ELSE IF recurrence_type = "yearly" THEN relativedelta_years1(text)
             ELSE Null

\* The row create_expense inserts.
new_expense_row(id, data) ==
    [id |-> id, user_id |-> data.user, category |-> data.category,
     amount |-> data.amount, due_date |-> data.due_date,
     is_recurring |-> data.is_recurring,
     recurrence_type |-> IF data.recurrence_type = Absent THEN "NULL"
                         ELSE data.recurrence_type,
     recurrence_end_date |-> data.recurrence_end_date,
     next_occurrence |-> first_next_occurrence(data),
     notes |-> ""]

\* POST /api/expenses
create_expense(data) ==
    /\ Cardinality({r \in expenses : r.notes = ""}) < MaxCreates
    /\ IF validate_expense_data(data)
       THEN /\ expenses' = expenses \cup {new_expense_row(nextExpId, data)}
            /\ nextExpId' = nextExpId + 1
            /\ resp' = Response("create_expense", 201, data.user, 0)
       ELSE /\ resp' = Response("create_expense", 400, data.user, 0)
            /\ UNCHANGED <<expenses, nextExpId>>
    /\ UNCHANGED <<today, emitted, passNo, txn>>
    /\ UNCHANGED <<payVars, taxVars, goalVars>>

\* ------------------------------------------------ process_recurring_expenses

\* The SELECT of the pass: the user's recurring rows with next_occurrence <= today.
due_expenses(table, u, t) ==
    {r \in table : /\ r.user_id = u
                   /\ r.is_recurring = TRUE
                   /\ r.next_occurrence # Null
                   /\ StrLE(r.next_occurrence, t)}

\* past_end_date with the end date never looked at.
past_end_date_ignored(expense) == FALSE

\* "Skip if past end date"
past_end_date(expense) ==
    /\ expense.recurrence_end_date # Null
    /\ StrGT(expense.next_occurrence, expense.recurrence_end_date)

\* new_next_occurrence with a month taken as thirty days.
new_next_occurrence_30days(recurrence_type, next_occurrence) ==
    IF recurrence_type = "weekly" THEN timedelta_weeks1(next_occurrence)
    ELSE IF recurrence_type = "monthly" THEN AddDays(next_occurrence, 30)
    ELSE IF recurrence_type = "yearly" THEN relativedelta_years1(next_occurrence)
    ELSE Null

\* "Calculate next occurrence": Null when no branch matches the stored type.
new_next_occurrence(recurrence_type, next_occurrence) ==
    IF recurrence_type = "weekly" THEN timedelta_weeks1(next_occurrence)
    ELSE IF recurrence_type = "monthly" THEN relativedelta_months1(next_occurrence)
    ELSE IF recurrence_type = "yearly" THEN relativedelta_years1(next_occurrence)
    ELSE Null

\* instance_row with the instance itself recurring.
instance_row_recurring(id, u, expense) ==
    [expense EXCEPT !.id = id, !.due_date = expense.next_occurrence,
                    !.notes = "Auto-generated from recurring expense"]

\* The row a pass inserts for one occurrence.
instance_row(id, u, expense) ==
    [id |-> id, user_id |-> u, category |-> expense.category,
     amount |-> expense.amount, due_date |-> expense.next_occurrence,
     is_recurring |-> FALSE, recurrence_type |-> "NULL",
     recurrence_end_date |-> Null, next_occurrence |-> Null,
     notes |-> "Auto-generated from recurring expense"]

\* update_next_occurrence with the UPDATE lost.
update_next_occurrence_lost(table, id, v) == table

\* UPDATE expenses SET next_occurrence = v WHERE id = id
update_next_occurrence(table, id, v) ==
    {IF r.id = id THEN [r EXCEPT !.next_occurrence = v] ELSE r : r \in table}

RECURSIVE process_loop(_, _, _, _, _)
\* The loop over the fetched rows `due` (in id order), run by user u as pass pn,
\* which read the date `at`, on the transaction's view
\* st = [table, nid, log, created] of the database.
process_loop(due, u, pn, at, st) ==
    IF due = {} THEN st
    ELSE LET expense == CHOOSE r \in due : \A q \in due : r.id <= q.id
             rest == due \ {expense}
         IN  IF past_end_date(expense)
             THEN process_loop(rest, u, pn, at, st)
             ELSE LET nn == new_next_occurrence(expense.recurrence_type,
                                                expense.next_occurrence)
                      inserted == st.table \cup {instance_row(st.nid, u, expense)}
                  IN  process_loop(rest, u, pn, at,
                        [table |-> IF nn # Null
                                   THEN update_next_occurrence(inserted, expense.id, nn)
                                   ELSE inserted,
                         nid |-> st.nid + 1,
                         log |-> st.log \cup {[src |-> expense.id,
                                               date |-> expense.next_occurrence,
                                               row |-> st.nid,
                                               pass |-> pn, at |-> at]},
                         created |-> st.created + 1])

\* POST /api/expenses/process-recurring, run alone: SELECT, loop and commit.
process_recurring_expenses(u) ==
    /\ passNo < MaxPasses
    /\ \A p \in Workers : txn[p].pc = "idle"
    /\ LET st == process_loop(due_expenses(expenses, u, Now), u, passNo + 1, Now,
                              [table |-> expenses, nid |-> nextExpId,
                               log |-> emitted, created |-> 0])
       IN  /\ expenses' = st.table
           /\ nextExpId' = st.nid
           /\ emitted' = st.log
           /\ resp' = Response("process_recurring_expenses", 200, u, st.created)
    /\ passNo' = passNo + 1
    /\ UNCHANGED <<today, txn>>
    /\ UNCHANGED <<payVars, taxVars, goalVars>>

\* conn.rollback() that keeps what the transaction wrote.
rollback_partial(committed, view) == view

\* conn.rollback(): the database is as it was committed, the transaction's
\* view (its INSERTs, UPDATEs and the AUTOINCREMENT counter) is dropped.
rollback(committed, view) == committed

\* The first k rows of `due` in id order.
first_rows(due, k) == {r \in due : Cardinality({q \in due : q.id < r.id}) < k}

\* POST /api/expenses/process-recurring in which a statement raises after the
\* loop handled k of the fetched rows: the except branch rolls back, 500.
process_recurring_expenses_raises(u, k) ==
    /\ passNo < MaxPasses
    /\ \A p \in Workers : txn[p].pc = "idle"
    /\ k < Cardinality(due_expenses(expenses, u, Now))
    /\ LET committed == [table |-> expenses, nid |-> nextExpId,
                         log |-> emitted, created |-> 0]
           view == process_loop(first_rows(due_expenses(expenses, u, Now), k),
                                u, passNo + 1, Now, committed)
       IN  /\ expenses' = rollback(committed, view).table
           /\ nextExpId' = rollback(committed, view).nid
    /\ resp' = Response("process_recurring_expenses", 500, u, 0)
    /\ passNo' = passNo + 1
    /\ UNCHANGED <<today, emitted, txn>>
    /\ UNCHANGED <<payVars, taxVars, goalVars>>

\* A worker with no rollover pass in progress.
Idle == [pc |-> "idle", user |-> 0, due |-> {}, pass |-> 0, at |-> Null]

\* The first half of a pass run by worker p beside other requests: it reads the
\* date and fetches the due rows (cursor.fetchall) on its own connection.
pass_select_within(p, u, n) ==
    /\ passNo < n
    /\ txn[p].pc = "idle"
    /\ txn' = [txn EXCEPT ![p] = [pc |-> "fetched", user |-> u,
                                  due |-> due_expenses(expenses, u, Now),
                                  pass |-> passNo + 1, at |-> Now]]
    /\ passNo' = passNo + 1
    /\ UNCHANGED <<today, expenses, nextExpId, emitted, resp>>
    /\ UNCHANGED <<payVars, taxVars, goalVars>>

\* The first half of one of MaxConcPasses passes.
pass_select(p, u) == pass_select_within(p, u, MaxConcPasses)

\* The second half: the loop's INSERTs and UPDATEs, computed from the rows
\* fetched earlier, reach the database together at conn.commit().
pass_commit(p) ==
    /\ txn[p].pc = "fetched"
    /\ LET t == txn[p]
           st == process_loop(t.due, t.user, t.pass, t.at,
                              [table |-> expenses, nid |-> nextExpId,
                               log |-> emitted, created |-> 0])
       IN  /\ expenses' = st.table
           /\ nextExpId' = st.nid
           /\ emitted' = st.log
           /\ resp' = [op |-> "process_recurring_expenses", status |-> 200,
                       user |-> t.user, created_count |-> st.created, at |-> t.at]
    /\ txn' = [txn EXCEPT ![p] = Idle]
    /\ UNCHANGED <<today, passNo>>
    /\ UNCHANGED <<payVars, taxVars, goalVars>>

\* The except branch: a write of the pass fails (the database is locked by the
\* other writer past the timeout), the transaction is rolled back, 500.
pass_rollback(p) ==
    /\ txn[p].pc = "fetched"
    /\ \E q \in Workers \ {p} : txn[q].pc = "fetched"
    /\ resp' = [op |-> "process_recurring_expenses", status |-> 500,
                user |-> txn[p].user, created_count |-> 0, at |-> txn[p].at]
    /\ txn' = [txn EXCEPT ![p] = Idle]
    /\ UNCHANGED <<today, expenses, nextExpId, emitted, passNo>>
    /\ UNCHANGED <<payVars, taxVars, goalVars>>

\* Time passes: datetime.now() reads a later date.
AdvanceDay ==
    /\ today < Len(Clock)
    /\ today' = today + 1
    /\ UNCHANGED <<expenses, nextExpId, emitted, passNo, txn, resp>>
    /\ UNCHANGED <<payVars, taxVars, goalVars>>

\* ----------------------------------------------------------------- shifts

\* A JSON key that may be missing: {} when it is, {v} when it holds v.
Missing == {}

\* dict.get(key, default)
Get(field, default) == IF field = Missing THEN default ELSE CHOOSE v \in field : TRUE

\* The days of year y before the first of month m.
RECURSIVE DaysBeforeMonth(_, _)
DaysBeforeMonth(y, m) ==
    IF m = 1 THEN 0 ELSE DaysBeforeMonth(y, m - 1) + DaysInMonth(y, m - 1)

\* date.toordinal(): the day number, 0001-01-01 being day 1.
toordinal(d) ==
    LET y == d[1] - 1
    IN  y * 365 + (y \div 4) - (y \div 100) + (y \div 400)
          + DaysBeforeMonth(d[1], d[2]) + d[3]

\* datetime.weekday(): 0 = Monday, 5 = Saturday, 6 = Sunday.
weekday(d) == (toordinal(d) + 6) % 7

\* A request body of POST /api/workplaces.
WpReq(u, base, sat, sun, hol, ot, thr) ==
    [user |-> u, name |-> "cafe", base_rate |-> base,
     saturday_multiplier |-> sat, sunday_multiplier |-> sun,
     public_holiday_multiplier |-> hol, overtime_multiplier |-> ot,
     overtime_threshold |-> thr]

\* The workplace requests the model sends: one with every rate left to its
\* default, one with every rate given, one of the other user, one without
\* base_rate.
WorkplaceRequests ==
    { WpReq(1, 20, Missing, Missing, Missing, Missing, Missing),
      WpReq(1, 25, {125}, {175}, {225}, {200}, {100}),
      WpReq(2, 30, Missing, Missing, Missing, Missing, Missing),
      WpReq(1, 0, Missing, Missing, Missing, Missing, Missing) }

\* POST /api/workplaces
create_workplace(data) ==
    /\ Cardinality(workplaces) < MaxWorkplaces
    /\ IF data.name = "" \/ data.base_rate = 0
       THEN /\ resp' = Response("create_workplace", 400, data.user, 0)
            /\ UNCHANGED <<workplaces, nextWpId>>
       ELSE /\ workplaces' = workplaces \cup
                {[id |-> nextWpId, user_id |-> data.user, name |-> data.name,
                  base_rate |-> data.base_rate,
                  saturday_multiplier |-> Get(data.saturday_multiplier, 150),
                  sunday_multiplier |-> Get(data.sunday_multiplier, 200),
                  public_holiday_multiplier |->
                      Get(data.public_holiday_multiplier, 250),
                  overtime_multiplier |-> Get(data.overtime_multiplier, 150),
                  overtime_threshold |-> Get(data.overtime_threshold, 80)]}
            /\ nextWpId' = nextWpId + 1
            /\ resp' = Response("create_workplace", 201, data.user, 0)
    /\ UNCHANGED <<shifts, nextShiftId, calc>>
    /\ UNCHANGED <<expVars, taxVars, goalVars>>

\* A NULL of a REAL column, None in Python.
NullNum == -1

\* The ownership check with the owner never compared.
unauthorized_missing_only(result, user_id) == result = {}

\* "if not result or result[0] != request.user_id": the row is missing or
\* belongs to another user.  result is the set of rows with the id.
unauthorized(result, user_id) ==
    result = {} \/ Get(result, 0).user_id # user_id

\* The request bodies of PUT /api/workplaces/<id> the model sends: one naming
\* only name and base_rate, one naming every rate, one without base_rate, one
\* of the other user.
WorkplaceUpdates ==
    { WpReq(1, 22, Missing, Missing, Missing, Missing, Missing),
      WpReq(1, 25, {125}, {175}, {225}, {200}, {100}),
      WpReq(1, 0, Missing, Missing, Missing, Missing, Missing),
      WpReq(2, 22, Missing, Missing, Missing, Missing, Missing) }

\* PUT /api/workplaces/<workplace_id>: every column is set to data.get(key),
\* NULL for a key the body leaves out; name and base_rate are NOT NULL, so a
\* body without them fails in the database and the update is rolled back.
update_workplace(workplace_id, data) ==
    /\ LET result == {w \in workplaces : w.id = workplace_id}
       IN  IF unauthorized(result, data.user)
           THEN /\ resp' = Response("update_workplace", 403, data.user, 0)
                /\ UNCHANGED workplaces
           ELSE IF data.name = "" \/ data.base_rate = 0
           THEN /\ resp' = Response("update_workplace", 500, data.user, 0)
                /\ UNCHANGED workplaces
           ELSE /\ workplaces' =
                       {IF w.id = workplace_id /\ w.user_id = data.user
                        THEN [w EXCEPT
                                !.name = data.name,
                                !.base_rate = data.base_rate,
                                !.saturday_multiplier =
                                    Get(data.saturday_multiplier, NullNum),
                                !.sunday_multiplier =
                                    Get(data.sunday_multiplier, NullNum),
                                !.public_holiday_multiplier =
                                    Get(data.public_holiday_multiplier, NullNum),
                                !.overtime_multiplier =
                                    Get(data.overtime_multiplier, NullNum),
                                !.overtime_threshold =
                                    Get(data.overtime_threshold, NullNum)]
                        ELSE w : w \in workplaces}
                /\ resp' = Response("update_workplace", 200, data.user, 0)
    /\ UNCHANGED <<nextWpId, shifts, nextShiftId, calc>>
    /\ UNCHANGED <<expVars, taxVars, goalVars>>

\* calculate_shift_pay with Saturday and Sunday taken as isoweekday numbers.
calculate_shift_pay_isoweekday(base_rate, hours, date_str, workplace_data) ==
    IF ~Parses(date_str) THEN base_rate * 100 * hours
    ELSE LET day_of_week == weekday(date_str) + 1
             saturday_mult == IF workplace_data = Missing THEN 150
                              ELSE Get(workplace_data, 0).saturday_multiplier
             sunday_mult == IF workplace_data = Missing THEN 200
                            ELSE Get(workplace_data, 0).sunday_multiplier
             rate == IF day_of_week = 5 THEN base_rate * saturday_mult
                     ELSE IF day_of_week = 6 THEN base_rate * sunday_mult
                     ELSE base_rate * 100
             TypeError == \/ day_of_week = 5 /\ saturday_mult = NullNum
                          \/ day_of_week = 6 /\ sunday_mult = NullNum
         IN  IF TypeError THEN base_rate * 100 * hours ELSE rate * hours

\* calculate_shift_pay: the pay in thousandths, hours being in tenths and the
\* multipliers in hundredths.  workplace_data is Missing (None) or {dict}.  The
\* product of base_rate and a NULL multiplier raises TypeError, and the bare
\* except answers base_rate * hours as it does for a date that does not parse.
calculate_shift_pay(base_rate, hours, date_str, workplace_data) ==
    IF ~Parses(date_str) THEN base_rate * 100 * hours
    ELSE LET day_of_week == weekday(date_str)
             saturday_mult == IF workplace_data = Missing THEN 150
                              ELSE Get(workplace_data, 0).saturday_multiplier
             sunday_mult == IF workplace_data = Missing THEN 200
                            ELSE Get(workplace_data, 0).sunday_multiplier
             rate == IF day_of_week = 5 THEN base_rate * saturday_mult
                     ELSE IF day_of_week = 6 THEN base_rate * sunday_mult
                     ELSE base_rate * 100
             TypeError == \/ day_of_week = 5 /\ saturday_mult = NullNum
                          \/ day_of_week = 6 /\ sunday_mult = NullNum
         IN  IF TypeError THEN base_rate * 100 * hours ELSE rate * hours

\* validate_shift_data without the upper limit on hours.
validate_shift_data_no_upper(data) ==
    /\ data.date # Null
    /\ data.hours_type = "number"
    /\ data.hours > 0
    /\ data.total_pay >= 0

\* validate_shift_data: the errors list is empty.  hours_type tells a JSON
\* number from a key that is missing and from a value that is no number.
validate_shift_data(data) ==
    /\ data.date # Null
    /\ data.hours_type = "number"
    /\ data.hours > 0 /\ data.hours <= 240
    /\ data.total_pay >= 0

\* A request body of POST /api/shifts; workplace_id 0 is a missing workplace_id.
ShiftReq(u, wp, date, hours) ==
    [user |-> u, workplace_id |-> wp, date |-> date, hours |-> hours,
     hours_type |-> "number", total_pay |-> 99000, shift_type |-> Missing]

\* The shift dates: a Wednesday, a Saturday, a Sunday, a public holiday on a
\* Thursday, a public holiday on a Saturday, and a text that names no date.
ShiftDates ==
    { <<2026, 2, 18>>, <<2026, 2, 21>>, <<2026, 2, 22>>, <<2026, 1, 1>>,
      <<2026, 12, 26>>, <<2026, 2, 30>> }

\* The shift requests the model sends: the workplace's owner on every date with
\* hours below, at and above the thresholds, with and without a workplace; the
\* other user naming a workplace not theirs; hours out of range, missing and
\* given as text; a shift the client labels itself.
ShiftRequests ==
    {ShiftReq(1, wp, d, h) : wp \in 0..2, d \in ShiftDates, h \in {50, 80, 100, 120}}
    \cup {ShiftReq(2, 1, <<2026, 2, 21>>, 80),
          ShiftReq(1, 1, <<2026, 2, 21>>, 0),
          ShiftReq(1, 1, <<2026, 2, 21>>, 250),
          [ShiftReq(1, 1, <<2026, 2, 21>>, 0) EXCEPT !.hours_type = "missing"],
          [ShiftReq(1, 1, <<2026, 2, 21>>, 80) EXCEPT !.hours_type = "text"],
          [ShiftReq(1, 1, <<2026, 2, 18>>, 80) EXCEPT !.shift_type = {"weekend"}]}

\* The request bodies of PUT /api/shifts/<id> the model sends: a new date and
\* new hours, a date that names no day, hours out of range, missing and given
\* as text, and a body of the other user.
ShiftUpdates ==
    { ShiftReq(1, 0, <<2026, 2, 22>>, 120),
      ShiftReq(1, 0, <<2026, 2, 30>>, 80),
      ShiftReq(1, 0, <<2026, 2, 22>>, 0),
      ShiftReq(1, 0, <<2026, 2, 22>>, 250),
      [ShiftReq(1, 0, <<2026, 2, 22>>, 0) EXCEPT !.hours_type = "missing"],
      [ShiftReq(1, 0, <<2026, 2, 22>>, 80) EXCEPT !.hours_type = "text"],
      ShiftReq(2, 0, <<2026, 2, 22>>, 120) }

\* No call of calculate_shift_pay.
NoCalc == [called |-> FALSE, base_rate |-> 0, hours |-> 0, date |-> Null,
           workplace |-> Missing, total_pay |-> 0]

\* The total_pay create_shift stores, the client's in every case.
total_pay_of_client(data, found, workplace_data) == data.total_pay

\* The total_pay create_shift stores: the client's, replaced by the calculated
\* pay when the SELECT found the caller's workplace.
total_pay_to_store(data, found, workplace_data) ==
    IF found = {} THEN data.total_pay
    ELSE calculate_shift_pay(Get(found, 0).base_rate, data.hours, data.date,
                             workplace_data)

\* POST /api/shifts
create_shift(data) ==
    /\ Cardinality(shifts) < MaxShifts
    /\ IF ~validate_shift_data(data)
       THEN /\ resp' = Response("create_shift", 400, data.user, 0)
            /\ calc' = NoCalc
            /\ UNCHANGED <<shifts, nextShiftId>>
       ELSE LET found == IF data.workplace_id = 0 THEN {}
                         ELSE {w \in workplaces : /\ w.id = data.workplace_id
                                                  /\ w.user_id = data.user}
                workplace_data ==
                    {[base_rate |-> w.base_rate,
                      saturday_multiplier |-> w.saturday_multiplier,
                      sunday_multiplier |-> w.sunday_multiplier] : w \in found}
                total_pay == total_pay_to_store(data, found, workplace_data)
            IN  /\ shifts' = shifts \cup
                       {[id |-> nextShiftId, user_id |-> data.user,
                         workplace_id |-> data.workplace_id, date |-> data.date,
                         hours |-> data.hours,
                         shift_type |-> Get(data.shift_type, "regular"),
                         total_pay |-> total_pay]}
                /\ nextShiftId' = nextShiftId + 1
                /\ calc' = IF found = {} THEN NoCalc
                           ELSE [called |-> TRUE,
                                 base_rate |-> Get(found, 0).base_rate,
                                 hours |-> data.hours, date |-> data.date,
                                 workplace |-> found, total_pay |-> total_pay]
                /\ resp' = Response("create_shift", 201, data.user, 0)
    /\ UNCHANGED <<workplaces, nextWpId>>
    /\ UNCHANGED <<expVars, taxVars, goalVars>>

\* PUT /api/shifts/<shift_id>: the row keeps its workplace and its shift_type
\* and takes date, hours and total_pay from the body; nothing is calculated.
update_shift(shift_id, data) ==
    /\ IF ~validate_shift_data(data)
       THEN /\ resp' = Response("update_shift", 400, data.user, 0)
            /\ UNCHANGED shifts
       ELSE LET result == {sh \in shifts : sh.id = shift_id}
            IN  IF unauthorized(result, data.user)
                THEN /\ resp' = Response("update_shift", 403, data.user, 0)
                     /\ UNCHANGED shifts
                ELSE /\ shifts' =
                            {IF sh.id = shift_id /\ sh.user_id = data.user
                             THEN [sh EXCEPT !.date = data.date,
                                             !.hours = data.hours,
                                             !.total_pay = data.total_pay]
                             ELSE sh : sh \in shifts}
                     /\ resp' = Response("update_shift", 200, data.user, 0)
    /\ calc' = NoCalc
    /\ UNCHANGED <<workplaces, nextWpId, nextShiftId>>
    /\ UNCHANGED <<expVars, taxVars, goalVars>>

\* -------------------------------------------------------------------- tax

\* A JSON value sent as annual_income: a number of whole dollars, the text of
\* such a number, the float NaN, a text that is no number, or a list.
Json(kind, v) == {[json |-> kind, v |-> v]}

\* The incomes the model sends: zero, each bracket boundary and the levy
\* threshold with the next income above it, and incomes inside the brackets.
\* None of them puts an amount exactly halfway between two cents, where the
\* binary float and not the decimal value decides how round() goes.
Incomes ==
    { 0, 1, 10000, 18200, 18201, 23226, 23227, 45000, 45002, 50000,
      120000, 120001, 180000, 180001, 200000 }

\* The request bodies of POST /api/tax/calculate the model sends.
TaxRequests ==
    {[user |-> 1, annual_income |-> x] :
        x \in {Json("number", i) : i \in Incomes \cup {-1, -50000}}
              \cup {Missing, Json("numeral", 50000), Json("nan", 0),
                    Json("word", 0), Json("list", 0)}}

\* float(x): a number, NaN, or ValueError / TypeError raised.
float(x) ==
    [raises |-> x.json \in {"word", "list"},
     nan |-> x.json = "nan",
     v |-> IF x.json \in {"number", "numeral"} THEN x.v ELSE 0]

\* round(n / d): the nearest integer, the even one of two equally near.
round(n, d) ==
    LET q == n \div d
        r == n % d
    IN  IF 2 * r < d THEN q
        ELSE IF 2 * r > d THEN q + 1
        ELSE IF q % 2 = 0 THEN q ELSE q + 1

\* The bracket chain with the rate of the third bracket mistyped.
bracket_tax_35(annual_income) ==
    IF annual_income <= 18200 THEN 0
    ELSE IF annual_income <= 45000 THEN (annual_income - 18200) * 190
    ELSE IF annual_income <= 120000 THEN 5092000 + (annual_income - 45000) * 350
    ELSE IF annual_income <= 180000 THEN 29467000 + (annual_income - 120000) * 370
    ELSE 51667000 + (annual_income - 180000) * 450

\* The bracket chain with the base amount of the fourth bracket mistyped.
bracket_tax_29476(annual_income) ==
    IF annual_income <= 18200 THEN 0
    ELSE IF annual_income <= 45000 THEN (annual_income - 18200) * 190
    ELSE IF annual_income <= 120000 THEN 5092000 + (annual_income - 45000) * 325
    ELSE IF annual_income <= 180000 THEN 29476000 + (annual_income - 120000) * 370
    ELSE 51667000 + (annual_income - 180000) * 450

\* The if / elif chain of calculate_tax: the income tax in thousandths of a
\* dollar on an income of whole dollars.
bracket_tax(annual_income) ==
    IF annual_income <= 18200 THEN 0
    ELSE IF annual_income <= 45000 THEN (annual_income - 18200) * 190
    ELSE IF annual_income <= 120000 THEN 5092000 + (annual_income - 45000) * 325
    ELSE IF annual_income <= 180000 THEN 29467000 + (annual_income - 120000) * 370
    ELSE 51667000 + (annual_income - 180000) * 450

\* The Medicare levy charged from the threshold itself on.
medicare_levy_inclusive(annual_income) ==
    IF annual_income >= 23226 THEN annual_income * 20 ELSE 0

\* The Medicare levy in thousandths of a dollar.
medicare_levy(annual_income) ==
    IF annual_income > 23226 THEN annual_income * 20 ELSE 0

\* No call of calculate_tax.  A record of a call holds the request, the
\* status, the local variable tax before rounding (in thousandths) and the
\* fields of the JSON answer: amounts in cents, the rate in hundredths of a
\* percent, and in nan the names of the fields that hold NaN.
NoTax ==
    [called |-> FALSE, request |-> Missing, status |-> 0, tax |-> 0, nan |-> {},
     annual_income |-> 0, income_tax |-> 0, medicare_levy |-> 0, total_tax |-> 0,
     net_income |-> 0, effective_tax_rate |-> 0, monthly_net |-> 0,
     fortnightly_net |-> 0]

\* The 400 answers of calculate_tax: an error text and no result field.
tax_error(data) == [NoTax EXCEPT !.called = TRUE, !.request = data.annual_income,
                                 !.status = 400]

\* The answer of calculate_tax to body `data`.
tax_answer(data) ==
    IF data.annual_income = Missing THEN tax_error(data)
    ELSE LET income == float(Get(data.annual_income, 0))
         IN  IF income.raises THEN tax_error(data)
             ELSE IF income.nan
             THEN \* every comparison with NaN is False: the last bracket's
                  \* arithmetic gives NaN, the levy and the rate are 0
                  [NoTax EXCEPT !.called = TRUE, !.request = data.annual_income,
                                !.status = 200,
                                !.nan = {"annual_income", "income_tax", "total_tax",
                                         "net_income", "monthly_net",
                                         "fortnightly_net"}]
             ELSE IF income.v < 0 THEN tax_error(data)
             ELSE LET annual_income == income.v
                      tax == bracket_tax(annual_income)
                      levy == medicare_levy(annual_income)
                      total_tax == tax + levy
                      net_income == annual_income * 1000 - total_tax
                      effective_rate ==
                          IF annual_income > 0
                          THEN round(total_tax * 10, annual_income) ELSE 0
                  IN  [called |-> TRUE, request |-> data.annual_income,
                       status |-> 200, tax |-> tax, nan |-> {},
                       annual_income |-> annual_income * 100,
                       income_tax |-> round(tax, 10),
                       medicare_levy |-> round(levy, 10),
                       total_tax |-> round(total_tax, 10),
                       net_income |-> round(net_income, 10),
                       effective_tax_rate |-> effective_rate,
                       monthly_net |-> round(net_income, 120),
                       fortnightly_net |-> round(net_income, 260)]

\* POST /api/tax/calculate.  taxPrev keeps the call before the last one.
calculate_tax(data) ==
    /\ taxPrev' = taxCall
    /\ taxCall' = tax_answer(data)
    /\ resp' = Response("calculate_tax", tax_answer(data).status, data.user, 0)
    /\ UNCHANGED <<expVars, payVars, goalVars>>

\* ------------------------------------------------- goals and categories

\* A request body of POST /api/goals.
GoalReq(u, name, target) == [user |-> u, name |-> name, target_amount |-> target]

\* The goal requests the model sends: one of each user, one without a name,
\* one with target 0.  Amounts are in cents.
GoalRequests ==
    { GoalReq(1, "car", 30000), GoalReq(2, "trip", 10000),
      GoalReq(1, "", 30000), GoalReq(1, "car", 0) }

\* validate_goal_data: the errors list is empty.
validate_goal_data(data) ==
    /\ data.name # ""
    /\ data.target_amount > 0

\* POST /api/goals: current_amount is left to its column default 0.
create_goal(data) ==
    /\ IF ~validate_goal_data(data)
       THEN /\ resp' = Response("create_goal", 400, data.user, 0)
            /\ UNCHANGED <<goals, nextGoalId>>
       ELSE /\ goals' = goals \cup
                    {[id |-> nextGoalId, user_id |-> data.user, name |-> data.name,
                      target_amount |-> data.target_amount, current_amount |-> 0]}
            /\ nextGoalId' = nextGoalId + 1
            /\ resp' = Response("create_goal", 201, data.user, 0)
    /\ UNCHANGED <<categories, nextCatId, milestones>>
    /\ UNCHANGED <<expVars, payVars, taxVars>>

\* A request body of POST /api/categories.
CatReq(u, name, type) == [user |-> u, name |-> name, type |-> type]

\* The category requests the model sends: one of each user, one of a type that
\* is neither expense nor income.
CategoryRequests ==
    { CatReq(1, "pets", "expense"), CatReq(2, "gifts", "income"),
      CatReq(1, "pets", "other") }

\* POST /api/categories
create_category(data) ==
    /\ IF data.name = "" \/ data.type \notin {"expense", "income"}
       THEN /\ resp' = Response("create_category", 400, data.user, 0)
            /\ UNCHANGED <<categories, nextCatId>>
       ELSE /\ categories' = categories \cup
                    {[id |-> nextCatId, user_id |-> data.user, name |-> data.name,
                      type |-> data.type]}
            /\ nextCatId' = nextCatId + 1
            /\ resp' = Response("create_category", 201, data.user, 0)
    /\ UNCHANGED <<goals, nextGoalId, milestones>>
    /\ UNCHANGED <<expVars, payVars, taxVars>>

\* progress_percentage as a fraction <<numerator, denominator>>:
\* current / target * 100 if target > 0 else 0.
progress_percentage(current, target) ==
    IF target > 0 THEN <<current * 100, target>> ELSE <<0, 1>>

\* progress >= n, for a fraction with a positive denominator.
ge(progress, n) == progress[1] >= n * progress[2]

\* The status chain with halfway tested before almost_there.
milestone_status_halfway_first(progress) ==
    IF ge(progress, 100) THEN "completed"
    ELSE IF ge(progress, 50) THEN "halfway"
    ELSE IF ge(progress, 75) THEN "almost_there"
    ELSE IF ge(progress, 25) THEN "in_progress"
    ELSE IF progress[1] > 0 THEN "just_started"
    ELSE "not_started"

\* "Determine status milestones"
milestone_status(progress) ==
    IF ge(progress, 100) THEN "completed"
    ELSE IF ge(progress, 75) THEN "almost_there"
    ELSE IF ge(progress, 50) THEN "halfway"
    ELSE IF ge(progress, 25) THEN "in_progress"
    ELSE IF progress[1] > 0 THEN "just_started"
    ELSE "not_started"

\* GET /api/goals/milestones: one entry for each goal of the user.
get_milestones(u) ==
    /\ milestones' =
           {[id |-> g.id, target_amount |-> g.target_amount,
             current_amount |-> g.current_amount,
             remaining |-> g.target_amount - g.current_amount,
             status |-> milestone_status(
                            progress_percentage(g.current_amount, g.target_amount))] :
               g \in {r \in goals : r.user_id = u}}
    /\ resp' = Response("get_milestones", 200, u, 0)
    /\ UNCHANGED <<goals, nextGoalId, categories, nextCatId>>
    /\ UNCHANGED <<expVars, payVars, taxVars>>

\* The target and current amounts (cents) of the goal rows the milestones are
\* computed from: amounts at, just below and above each threshold, a target
\* of zero and a negative one.
TargetAmounts == {-10000, 0, 10000, 40000}

CurrentAmounts == {-100, 0, 1, 2499, 2500, 7499, 7500, 9999, 10000, 20000, 30000, 40000}

GoalRow(id, u, target, current) ==
    [id |-> id, user_id |-> u, name |-> "car", target_amount |-> target,
     current_amount |-> current]

\* The tables of two goals of user 1.
GoalTables ==
    {{GoalRow(1, 1, t1, c1), GoalRow(2, 1, t2, c2)} :
        <<t1, c1, t2, c2>> \in TargetAmounts \X CurrentAmounts
                                 \X {10000, 40000} \X CurrentAmounts}

\* ------------------------------------------------------------- deletes

\* The common body of the DELETE handlers on `table`: the table afterwards and
\* the status answered.
delete_from(table, id, user_id) ==
    IF unauthorized({r \in table : r.id = id}, user_id)
    THEN [table |-> table, status |-> 403]
    ELSE [table |-> {r \in table : r.id # id}, status |-> 200]

\* DELETE /api/workplaces/<workplace_id>: the shifts naming the workplace stay
\* (SQLite does not enforce the foreign key unless asked to).
delete_workplace(u, workplace_id) ==
    /\ workplaces' = delete_from(workplaces, workplace_id, u).table
    /\ resp' = Response("delete_workplace",
                         delete_from(workplaces, workplace_id, u).status, u, 0)
    /\ UNCHANGED <<nextWpId, shifts, nextShiftId, calc>>
    /\ UNCHANGED <<expVars, taxVars, goalVars>>

\* DELETE /api/shifts/<shift_id>
delete_shift(u, shift_id) ==
    /\ shifts' = delete_from(shifts, shift_id, u).table
    /\ resp' = Response("delete_shift", delete_from(shifts, shift_id, u).status, u, 0)
    /\ UNCHANGED <<workplaces, nextWpId, nextShiftId, calc>>
    /\ UNCHANGED <<expVars, taxVars, goalVars>>

\* DELETE /api/expenses/<expense_id>
delete_expense(u, expense_id) ==
    /\ expenses' = delete_from(expenses, expense_id, u).table
    /\ resp' = Response("delete_expense",
                         delete_from(expenses, expense_id, u).status, u, 0)
    /\ UNCHANGED <<today, nextExpId, emitted, passNo, txn>>
    /\ UNCHANGED <<payVars, taxVars, goalVars>>

\* DELETE /api/goals/<goal_id>
delete_goal(u, goal_id) ==
    /\ goals' = delete_from(goals, goal_id, u).table
    /\ resp' = Response("delete_goal", delete_from(goals, goal_id, u).status, u, 0)
    /\ UNCHANGED <<nextGoalId, categories, nextCatId, milestones>>
    /\ UNCHANGED <<expVars, payVars, taxVars>>

\* DELETE /api/categories/<category_id>
delete_category(u, category_id) ==
    /\ categories' = delete_from(categories, category_id, u).table
    /\ resp' = Response("delete_category",
                         delete_from(categories, category_id, u).status, u, 0)
    /\ UNCHANGED <<goals, nextGoalId, nextCatId, milestones>>
    /\ UNCHANGED <<expVars, payVars, taxVars>>

\* ------------------------------------------------------ authentication

\* A word of an Authorization header.  kind "signed" is a JWT signed with
\* JWT_SECRET, "forged" one signed with another key, "text" any other word,
\* "empty" the empty string; exp is the index in Clock of the expiry time.
Token(kind, u, exp) == [kind |-> kind, user_id |-> u, exp |-> exp]

Bearer == Token("text", 0, 0)

Tokens ==
    { Token("signed", 1, 4), Token("signed", 2, 3), Token("signed", 1, 1),
      Token("signed", 2, 2), Token("forged", 1, 4), Token("text", 0, 0) }

\* The Authorization headers the model sends, as the words between single
\* spaces; Missing is a request without the header.
Headers ==
    {Missing} \cup {{<<Bearer>>}} \cup {{<<Bearer, t>>} : t \in Tokens}
        \cup {{<<t>>} : t \in {Token("signed", 1, 4)}}
        \cup {{<<Bearer, Token("empty", 0, 0), Token("signed", 1, 4)>>}}

\* verify_jwt_token with the expiry not looked at.
verify_jwt_token_no_expiry(token) ==
    IF token.kind = "signed" THEN {[user_id |-> token.user_id]} ELSE {}

\* verify_jwt_token: the payload of a token whose signature verifies and whose
\* exp is after now, else None ({}).
verify_jwt_token(token) ==
    IF token.kind = "signed" /\ token.exp > today
    THEN {[user_id |-> token.user_id]}
    ELSE {}

\* The 401 of the decorator: the handler is not called.
Unauthenticated(error) ==
    /\ resp' = [op |-> "token_required", status |-> 401, user |-> 0,
                created_count |-> 0, at |-> Now, error |-> error]
    /\ UNCHANGED <<expVars, payVars, taxVars, goalVars>>

\* request.user_id as the decorator sets it: payload['user_id'].
request_user_id(header) ==
    Get(verify_jwt_token(Get(header, <<>>)[2]), 0).user_id

\* The decorator around the handler's call f, which reads request.user_id.
token_required(header, f) ==
    IF header # Missing /\ Len(Get(header, <<>>)) < 2
    THEN Unauthenticated("Invalid token format")
    ELSE IF header = Missing \/ Get(header, <<>>)[2].kind = "empty"
    THEN Unauthenticated("Token is missing")
    ELSE IF verify_jwt_token(Get(header, <<>>)[2]) = {}
    THEN Unauthenticated("Invalid or expired token")
    ELSE f

\* ----------------------------------------------------------- specification

InitExceptGoals ==
    /\ today = 1
    /\ expenses = {}
    /\ nextExpId = 1
    /\ emitted = {}
    /\ passNo = 0
    /\ txn = [p \in Workers |-> Idle]
    /\ resp = [op |-> "none", status |-> 0, user |-> 0, created_count |-> 0, at |-> Null]
    /\ workplaces = {}
    /\ nextWpId = 1
    /\ shifts = {}
    /\ nextShiftId = 1
    /\ calc = NoCalc
    /\ taxCall = NoTax
    /\ taxPrev = NoTax
    /\ categories = {}
    /\ nextCatId = 1
    /\ milestones = {}

Init ==
    /\ InitExceptGoals
    /\ goals = {}
    /\ nextGoalId = 1

Next ==
    \/ \E data \in ExpenseRequests : create_expense(data)
    \/ \E u \in Users : process_recurring_expenses(u)
    \/ AdvanceDay

Spec == Init /\ [][Next]_vars

\* Rollover passes of concurrent requests: each pass is a SELECT and, later, a
\* commit, and the halves of two passes interleave.
NextConc ==
    \/ \E data \in ExpenseRequests : create_expense(data)
    \/ \E p \in Workers, u \in Users : pass_select(p, u)
    \/ \E p \in Workers : pass_commit(p)
    \/ \E p \in Workers : pass_rollback(p)
    \/ AdvanceDay

SpecConc == Init /\ [][NextConc]_vars

\* Workplaces and shifts.
NextPay ==
    \/ \E data \in WorkplaceRequests : create_workplace(data)
    \/ \E data \in ShiftRequests : create_shift(data)

SpecPay == Init /\ [][NextPay]_vars

\* Shifts created and then edited: one kind of workplace, and of the shift
\* requests those of 8 hours or of bad hours on the Wednesday and the Saturday.
NextShift ==
    \/ \E data \in {d \in WorkplaceRequests : d.user = 1 /\ d.base_rate = 20} :
           create_workplace(data)
    \/ \E data \in {d \in ShiftRequests :
                       /\ d.workplace_id <= 1
                       /\ d.hours \in {0, 80, 250}
                       /\ d.date \in {<<2026, 2, 18>>, <<2026, 2, 21>>}} :
           create_shift(data)
    \/ \E shift_id \in 1..MaxShifts, data \in ShiftUpdates : update_shift(shift_id, data)

SpecShift == Init /\ [][NextShift]_vars

\* Workplaces created and then edited, and 5-hour shifts at workplace 1 on the
\* Wednesday, the Saturday and the Sunday.
NextRates ==
    \/ \E data \in {d \in WorkplaceRequests : d.user = 1} : create_workplace(data)
    \/ \E workplace_id \in 1..MaxWorkplaces,
          data \in {d \in WorkplaceUpdates : d.user = 1} :
           update_workplace(workplace_id, data)
    \/ \E data \in {d \in ShiftRequests :
                       /\ d.user = 1 /\ d.workplace_id = 1
                       /\ d.hours = 50 /\ d.hours_type = "number"
                       /\ d.date \in {<<2026, 2, 18>>, <<2026, 2, 21>>,
                                      <<2026, 2, 22>>}} :
           create_shift(data)

SpecRates == Init /\ [][NextRates]_vars

\* Tax calculations, one request after another.
NextTax == \E data \in TaxRequests : calculate_tax(data)

SpecTax == Init /\ [][NextTax]_vars

\* Requests behind the decorator: the endpoints of table expenses, called with
\* the header given, while the days pass and tokens expire.
AuthCall(header) ==
    \/ /\ nextExpId <= MaxCreates
       /\ \E data \in {d \in ExpenseRequests :
                          /\ d.user = 1 /\ d.amount > 0
                          /\ d.due_date = <<2026, 1, 15>>
                          /\ d.recurrence_type = "monthly"} :
             token_required(header,
                 create_expense([data EXCEPT !.user = request_user_id(header)]))
    \/ token_required(header, process_recurring_expenses(request_user_id(header)))
    \/ \E id \in 1..MaxCreates :
           token_required(header, delete_expense(request_user_id(header), id))

NextAuth ==
    \/ \E header \in Headers : AuthCall(header)
    \/ AdvanceDay

SpecAuth == Init /\ [][NextAuth]_vars

\* Rollover passes some of which fail part-way: the weekly and monthly
\* expenses of two users and an expense that does not recur, passes that commit
\* and passes that raise.
NextFail ==
    \/ \E data \in {d \in ExpenseRequests :
                       /\ d.amount > 0
                       /\ d.is_recurring => d.recurrence_type \in {"weekly", "monthly"}
                       /\ d.due_date # Null /\ Parses(d.due_date)} :
           create_expense(data)
    \/ \E u \in Users : process_recurring_expenses(u)
    \/ \E u \in Users, k \in 0..MaxCreates :
           process_recurring_expenses_raises(u, k)
    \/ AdvanceDay

SpecFail == Init /\ [][NextFail]_vars

\* One worker's pass held between its SELECT and its writes while the other
\* worker runs passes of its own: MaxRacePasses passes over a monthly and a
\* yearly record of user 1.
NextRace ==
    \/ \E data \in {d \in ExpenseRequests :
                       /\ d.user = 1 /\ d.amount > 0
                       /\ d.due_date \in {<<2026, 1, 15>>, <<2024, 2, 29>>}
                       /\ d.recurrence_type \in {"monthly", "yearly"}} :
           create_expense(data)
    \/ \E p \in Workers : pass_select_within(p, 1, MaxRacePasses)
    \/ \E p \in Workers : pass_commit(p)
    \/ AdvanceDay

SpecRace == Init /\ [][NextRace]_vars

\* Milestones of goal tables holding any of the amounts; a goal created
\* through the API joins them with current_amount 0.
InitMilestones ==
    /\ InitExceptGoals
    /\ goals \in GoalTables
    /\ nextGoalId = 3

NextMilestones ==
    \/ /\ nextGoalId <= MaxGoals
       /\ \E data \in {d \in GoalRequests : d.target_amount # 30000} :
              create_goal(data)
    \/ \E u \in Users : get_milestones(u)

SpecMilestones == InitMilestones /\ [][NextMilestones]_vars

\* Records of the five owned tables created, edited and deleted by the two
\* users, MaxRecords creations in all.
Created == (nextWpId - 1) + (nextShiftId - 1) + (nextExpId - 1)
               + (nextGoalId - 1) + (nextCatId - 1)

\* The updates of the ownership specification: a valid one of each user, and
\* for shifts one with hours 0.
OwnWorkplaceUpdates == {d \in WorkplaceUpdates : d.base_rate = 22}

OwnShiftUpdates ==
    {d \in ShiftUpdates : d.hours_type = "number" /\ d.hours \in {0, 120}}

NextOwn ==
    \/ /\ Created < MaxRecords
       /\ \E data \in {d \in WorkplaceRequests : d.base_rate \in {20, 30}} :
              create_workplace(data)
    \/ /\ Created < MaxRecords
       /\ \E data \in {d \in ShiftRequests :
                            /\ d.workplace_id = 1 /\ d.hours = 80
                            /\ d.hours_type = "number"
                            /\ d.shift_type = Missing
                            /\ d.date = <<2026, 2, 21>>} :
              create_shift(data)
    \/ /\ Created < MaxRecords
       /\ \E data \in {d \in ExpenseRequests : ~d.is_recurring} :
              create_expense(data)
    \/ /\ Created < MaxRecords
       /\ \E data \in {d \in GoalRequests : validate_goal_data(d) /\ d.user = 1} :
              create_goal(data)
    \/ /\ Created < MaxRecords
       /\ \E data \in {d \in CategoryRequests : d.type # "other" /\ d.user = 2} :
              create_category(data)
    \/ \E workplace_id \in 1..MaxRecords, data \in OwnWorkplaceUpdates :
           update_workplace(workplace_id, data)
    \/ \E shift_id \in 1..MaxRecords, data \in OwnShiftUpdates :
           update_shift(shift_id, data)
    \/ \E u \in Users, id \in 1..MaxRecords : delete_workplace(u, id)
    \/ \E u \in Users, id \in 1..MaxRecords : delete_shift(u, id)
    \/ \E u \in Users, id \in 1..MaxRecords : delete_expense(u, id)
    \/ \E u \in Users, id \in 1..MaxRecords : delete_goal(u, id)
    \/ \E u \in Users, id \in 1..MaxRecords : delete_category(u, id)

SpecOwn == Init /\ [][NextOwn]_vars

\* ------------------------------------------------------------------ claims

\* The row of `table` with the given id.
Row(table, id) == CHOOSE r \in table : r.id = id

\* d plus one period of the given type: a week, a calendar month, a calendar year.
PlusOnePeriod(type, d) ==
    CASE type = "weekly" -> timedelta_weeks1(d)
      [] type = "monthly" -> relativedelta_months1(d)
      [] type = "yearly" -> relativedelta_years1(d)

\* A recurring record of user u that is due at date t and not past its end date.
ClaimDue(r, u, t) ==
    /\ r.user_id = u
    /\ r.is_recurring = TRUE
    /\ r.next_occurrence # Null
    /\ StrLE(r.next_occurrence, t)
    /\ (r.recurrence_end_date = Null
        \/ StrLE(r.next_occurrence, r.recurrence_end_date))

\* This step is a rollover pass run alone (Spec) by user resp'.user at date Now.
PassStep == passNo' = passNo + 1

\* The events the pass of this step logs for row id.
NewEvents(id) == {e \in emitted' \ emitted : e.src = id}

\* The rows this step inserts.
NewRows == {n \in expenses' : n.id >= nextExpId}

\* C1: a rollover pass inserts, for every recurring record of its user that is due
\* and not past its end date, exactly one non-recurring expense dated the record's
\* old nextOccurrence (and inserts nothing else), and persists nextOccurrence
\* advanced by one week (weekly), one calendar month (monthly) or one calendar
\* year (yearly).
C1_PassEmitsOneAndAdvancesOnePeriod ==
    [][PassStep =>
        /\ \A r \in expenses : ClaimDue(r, resp'.user, Now) =>
              /\ Cardinality(NewEvents(r.id)) = 1
              /\ \A e \in NewEvents(r.id) :
                    /\ e.date = r.next_occurrence
                    /\ \E n \in NewRows :
                          /\ n.id = e.row
                          /\ n.is_recurring = FALSE
                          /\ n.user_id = r.user_id
                          /\ n.due_date = r.next_occurrence
              /\ r.recurrence_type \in RecurrenceTypes =>
                    Row(expenses', r.id).next_occurrence =
                        PlusOnePeriod(r.recurrence_type, r.next_occurrence)
        /\ Cardinality(NewRows) =
              Cardinality({r \in expenses : ClaimDue(r, resp'.user, Now)})
        /\ resp'.created_count = Cardinality(NewRows)
    ]_vars

\* C1 witness: a weekly, a monthly or a yearly record has had an instance emitted
\* and stands one period after that instance's date.
C1_Witness ==
    \E r \in expenses, e \in emitted :
        /\ e.src = r.id
        /\ e.pass = passNo
        /\ r.recurrence_type = "monthly"
        /\ r.next_occurrence = PlusOnePeriod(r.recurrence_type, e.date)
        /\ \E n \in expenses : n.id = e.row /\ n.due_date = e.date

\* C2: passes that read the same 'today' never materialise the same occurrence
\* date of a record twice.
C2_NoDoubleEmitSameDay ==
    \A e1, e2 \in emitted :
        (e1.src = e2.src /\ e1.at = e2.at /\ e1.date = e2.date) => e1 = e2

\* C4: a pass that emits an instance for a record persists a strictly later
\* nextOccurrence for that record.
C4_EmitPersistsLaterNext ==
    [][PassStep =>
        \A e \in emitted' \ emitted :
            StrGT(Row(expenses', e.src).next_occurrence, e.date)
    ]_vars

\* C5 as claimed (stated for weekly, monthly and yearly records only): after a
\* pass at date T every record the pass emitted for has nextOccurrence > T.
C5_EmittedIsPastToday ==
    [][PassStep =>
        \A e \in emitted' \ emitted :
            Row(expenses, e.src).recurrence_type \in RecurrenceTypes =>
                StrGT(Row(expenses', e.src).next_occurrence, Now)
    ]_vars

\* C5 amended: after a pass at date T, a record the pass emitted for has
\* nextOccurrence > T, and is not matched by a second pass at T, exactly when its
\* stored type is weekly, monthly or yearly and its old nextOccurrence plus one
\* period is later than T.
C5_PastTodayIffOnePeriodSuffices ==
    [][PassStep =>
        \A e \in emitted' \ emitted :
            LET old == Row(expenses, e.src)
                new == Row(expenses', e.src)
                suffices ==
                    /\ old.recurrence_type \in RecurrenceTypes
                    /\ StrGT(PlusOnePeriod(old.recurrence_type,
                                           old.next_occurrence), Now)
            IN  /\ StrGT(new.next_occurrence, Now) <=> suffices
                /\ new \notin due_expenses(expenses', resp'.user, Now) <=> suffices
    ]_vars

\* C5 witness: the last pass emitted for a record and left it later than the
\* date the pass read.
C5_Witness ==
    \E r \in expenses, e \in emitted :
        /\ e.src = r.id
        /\ e.pass = passNo
        /\ resp.op = "process_recurring_expenses"
        /\ e.at = Now
        /\ StrGT(r.next_occurrence, Now)

\* C6: a recurring record whose nextOccurrence is later than its non-null
\* recurrenceEndDate is never changed and never emitted for, by any step at any
\* date.
C6_PastEndIsTerminal ==
    [][\A r \in expenses :
          (/\ r.is_recurring = TRUE
           /\ r.next_occurrence # Null
           /\ r.recurrence_end_date # Null
           /\ StrGT(r.next_occurrence, r.recurrence_end_date))
          => /\ r \in expenses'
             /\ NewEvents(r.id) = {}
             /\ \A n \in NewRows : n.due_date # r.next_occurrence
                                   \/ n.user_id # r.user_id
    ]_vars

\* C6 witness: a record past its end date was matched by the SELECT of the last
\* pass of its user (nextOccurrence <= the date the pass read) and the pass
\* emitted nothing for it.
C6_Witness ==
    \E r \in expenses :
        /\ r.is_recurring = TRUE
        /\ r.recurrence_end_date # Null
        /\ r.next_occurrence # Null
        /\ StrGT(r.next_occurrence, r.recurrence_end_date)
        /\ resp.op = "process_recurring_expenses"
        /\ resp.user = r.user_id
        /\ StrLE(r.next_occurrence, resp.at)
        /\ \A e \in emitted : e.src = r.id => e.pass < passNo

\* A recurring record created with due_date D of a type with a period, for which
\* no instance has been emitted yet.
Anchored(r) ==
    /\ r.is_recurring = TRUE
    /\ r.recurrence_type \in RecurrenceTypes
    /\ r.due_date # Null
    /\ Parses(r.due_date)
    /\ \A e \in emitted : e.src # r.id

\* C7 as claimed: for a record anchored at D (no end date), the first pass with
\* today >= D emits an instance dated D and leaves nextOccurrence = D + one period.
C7_FirstInstanceAtAnchor ==
    [][PassStep =>
        \A r \in expenses :
            (/\ Anchored(r)
             /\ r.user_id = resp'.user
             /\ r.recurrence_end_date = Null
             /\ StrLE(r.due_date, Now))
            => /\ \E e \in NewEvents(r.id) : e.date = r.due_date
               /\ Row(expenses', r.id).next_occurrence =
                      PlusOnePeriod(r.recurrence_type, r.due_date)
    ]_vars

\* C7 amended: a record created with due_date D and type weekly, monthly or
\* yearly is stored with nextOccurrence = D + one period; the first pass with
\* today >= D + one period (that date not being after the end date) emits one
\* instance dated D + one period and leaves nextOccurrence = D + two periods; a
\* pass before that emits nothing for it and leaves it as it is.
C7_FirstInstanceOnePeriodAfterAnchor ==
    [][PassStep =>
        \A r \in expenses :
            (Anchored(r) /\ r.user_id = resp'.user) =>
                LET first == PlusOnePeriod(r.recurrence_type, r.due_date)
                IN  /\ r.next_occurrence = first
                    /\ IF /\ StrLE(first, Now)
                          /\ (r.recurrence_end_date = Null
                              \/ StrLE(first, r.recurrence_end_date))
                       THEN /\ Cardinality(NewEvents(r.id)) = 1
                            /\ \A e \in NewEvents(r.id) : e.date = first
                            /\ Row(expenses', r.id).next_occurrence =
                                   PlusOnePeriod(r.recurrence_type, first)
                       ELSE /\ NewEvents(r.id) = {}
                            /\ r \in expenses'
    ]_vars

\* C7 witness: the spec's example.  The monthly record anchored 2026-01-15 has
\* had its first instance emitted, dated 2026-02-15, and stands at 2026-03-15.
C7_Witness ==
    \E r \in expenses :
        /\ r.is_recurring = TRUE
        /\ r.recurrence_type = "monthly"
        /\ r.due_date = <<2026, 1, 15>>
        /\ r.next_occurrence = <<2026, 3, 15>>
        /\ {e.date : e \in {x \in emitted : x.src = r.id}} = {<<2026, 2, 15>>}

RECURSIVE PlusPeriods(_, _, _)
\* d plus k periods of the given type, one after the other.
PlusPeriods(type, d, k) ==
    IF k = 0 THEN d ELSE PlusPeriods(type, PlusOnePeriod(type, d), k - 1)

\* C3: with the passes of two requests interleaved, no occurrence date of a
\* weekly, monthly or yearly record is materialised twice, and nextOccurrence
\* has been advanced exactly once per emitted instance (a record created with
\* due_date D starts one period after D).
C3_ConcurrentPassesEmitOnce ==
    /\ \A e1, e2 \in emitted :
          (/\ e1.src = e2.src
           /\ e1.date = e2.date
           /\ Row(expenses, e1.src).recurrence_type \in RecurrenceTypes)
          => e1 = e2
    /\ \A r \in expenses :
          (/\ r.is_recurring = TRUE
           /\ r.recurrence_type \in RecurrenceTypes
           /\ r.due_date # Null
           /\ Parses(r.due_date))
          => r.next_occurrence =
                PlusPeriods(r.recurrence_type, r.due_date,
                            1 + Cardinality({e \in emitted : e.src = r.id}))

\* The public holidays of the region: New Year's Day (a Thursday in 2026) and
\* Boxing Day (a Saturday in 2026).
PublicHolidaySet == { <<2026, 1, 1>>, <<2026, 12, 26>> }

\* The Saturdays and the Sundays among the shift dates, by the calendar.
Saturdays == { <<2026, 2, 21>>, <<2026, 12, 26>> }

Sundays == { <<2026, 2, 22>> }

\* The rate configuration of the workplace the last calculation was made for.
Config == CHOOSE w \in calc.workplace : TRUE

\* The day multiplier of the pay rules, in hundredths: the public holiday
\* multiplier on a public holiday, else the Saturday or the Sunday multiplier,
\* else 1.0.
DayMultiplier(date, w) ==
    IF date \in PublicHolidaySet THEN w.public_holiday_multiplier
    ELSE IF date \in Saturdays THEN w.saturday_multiplier
    ELSE IF date \in Sundays THEN w.sunday_multiplier
    ELSE 100

\* The shift row the last create_shift inserted.
LastShift == CHOOSE sh \in shifts : sh.id = nextShiftId - 1

\* Every rate of workplace w holds a number.
Configured(w) ==
    /\ w.saturday_multiplier # NullNum
    /\ w.sunday_multiplier # NullNum
    /\ w.public_holiday_multiplier # NullNum
    /\ w.overtime_multiplier # NullNum
    /\ w.overtime_threshold # NullNum

\* C8: for a workplace with every rate configured, a non-holiday date and
\* hours <= overtimeThresholdHours the pay that create_shift calculates and
\* stores is hours x baseRate x dayMultiplier, the day multiplier being the
\* Saturday multiplier on Saturday, the Sunday multiplier on Sunday and 1.0
\* from Monday to Friday.
C8_PayWithinThreshold ==
    (/\ calc.called
     /\ Configured(Config)
     /\ Parses(calc.date)
     /\ calc.date \notin PublicHolidaySet
     /\ calc.hours <= Config.overtime_threshold)
    => /\ calc.total_pay =
            calc.hours * Config.base_rate * DayMultiplier(calc.date, Config)
       /\ LastShift.total_pay = calc.total_pay

\* C8 witness: the spec's example.  Base rate 20, a Saturday at 1.5, 5 hours:
\* the shift is stored with pay 150.
C8_Witness ==
    /\ calc.called
    /\ calc.date = <<2026, 2, 21>>
    /\ calc.hours = 50
    /\ Config.base_rate = 20
    /\ Config.saturday_multiplier = 150
    /\ LastShift.total_pay = 150000

\* C9: when hours > overtimeThresholdHours the calculated pay is
\* threshold x baseRate x dayMultiplier
\*   + (hours - threshold) x baseRate x overtimeMultiplier x dayMultiplier.
\* (Both sides in hundred-thousandths.)
C9_PayAboveThreshold ==
    (/\ calc.called
     /\ Parses(calc.date)
     /\ calc.hours > Config.overtime_threshold)
    => calc.total_pay * 100 =
          Config.overtime_threshold * Config.base_rate
              * DayMultiplier(calc.date, Config) * 100
          + (calc.hours - Config.overtime_threshold) * Config.base_rate
              * Config.overtime_multiplier * DayMultiplier(calc.date, Config)

\* C10: a shift dated in the PublicHolidaySet is paid with the public holiday
\* multiplier, also when the holiday is a Saturday or a Sunday.
C10_HolidayPay ==
    (/\ calc.called
     /\ calc.date \in PublicHolidaySet
     /\ calc.hours <= Config.overtime_threshold)
    => calc.total_pay =
          calc.hours * Config.base_rate * Config.public_holiday_multiplier

\* The classification label the pay rules give a shift of `hours` on `date`
\* under overtime threshold thr: the day class, and _overtime after it when the
\* hours exceed the threshold.
Label(date, hours, thr) ==
    LET over == hours > thr
    IN  IF date \in PublicHolidaySet
        THEN (IF over THEN "public_holiday_overtime" ELSE "public_holiday")
        ELSE IF weekday(date) >= 5
        THEN (IF over THEN "weekend_overtime" ELSE "weekend")
        ELSE (IF over THEN "weekday_overtime" ELSE "weekday")

\* The overtime threshold that applies to shift row sh: that of its workplace,
\* 8.0 hours when it has none or the workplace names none.
ThresholdOf(sh) ==
    LET found == {w \in workplaces : w.id = sh.workplace_id /\ w.user_id = sh.user_id}
    IN  IF found = {} \/ Get(found, 0).overtime_threshold = NullNum THEN 80
        ELSE Get(found, 0).overtime_threshold

\* C11: the classification label stored with a shift is derived from its date
\* and hours (weekday, weekend or public_holiday, with _overtime after it
\* exactly when the hours exceed the threshold), whatever label the caller sent.
C11_LabelDerivedFromDateAndHours ==
    \A sh \in shifts :
        Parses(sh.date) => sh.shift_type = Label(sh.date, sh.hours, ThresholdOf(sh))

\* The body's hours are missing, no number, or outside (0, 24].
BadHours(data) ==
    data.hours_type # "number" \/ data.hours <= 0 \/ data.hours > 240

\* The step answers 400, calculates no pay and leaves the shifts as they were.
Rejected == resp'.status = 400 /\ calc' = NoCalc /\ shifts' = shifts

C13_UnparseableDateRejected ==
    [][\A data \in ShiftRequests :
          create_shift(data) /\ data.date # Null /\ ~Parses(data.date) => Rejected]_vars

\* The default of a rate: v itself unless it is NULL.
OrDefault(v, default) == IF v = NullNum THEN default ELSE v

\* Workplace w with the defaults 1.5, 2.0, 2.5, 1.5 and 8.0 hours in the place
\* of the rates it does not hold.
WithDefaults(w) ==
    [w EXCEPT !.saturday_multiplier = OrDefault(@, 150),
              !.sunday_multiplier = OrDefault(@, 200),
              !.public_holiday_multiplier = OrDefault(@, 250),
              !.overtime_multiplier = OrDefault(@, 150),
              !.overtime_threshold = OrDefault(@, 80)]

\* The workplace that create_workplace(data) has just stored holds the default
\* of every rate that data leaves out.
StoredWithDefaults(data) ==
    \E w \in workplaces' \ workplaces :
        /\ w.saturday_multiplier = Get(data.saturday_multiplier, 150)
        /\ w.sunday_multiplier = Get(data.sunday_multiplier, 200)
        /\ w.public_holiday_multiplier = Get(data.public_holiday_multiplier, 250)
        /\ w.overtime_multiplier = Get(data.overtime_multiplier, 150)
        /\ w.overtime_threshold = Get(data.overtime_threshold, 80)

\* C18: a workplace created without rate fields is stored with the defaults
\* 1.5, 2.0, 2.5, 1.5 and 8.0, and a pay calculation that meets a rate the
\* workplace does not hold uses the default in its place (stated here for the
\* non-holiday shift within the threshold, the case of C8).
C18_DefaultsWhenAbsent ==
    [][/\ \A data \in WorkplaceRequests :
             create_workplace(data) /\ resp'.status = 201 => StoredWithDefaults(data)
       /\ (/\ calc'.called
           /\ Parses(calc'.date)
           /\ calc'.date \notin PublicHolidaySet)
          => LET w == WithDefaults(CHOOSE x \in calc'.workplace : TRUE)
             IN  calc'.hours <= w.overtime_threshold
                 => calc'.total_pay =
                        calc'.hours * w.base_rate * DayMultiplier(calc'.date, w)]_vars

\* Call record c is of a request whose annual_income is a number >= 0.
IncomeGiven(c) ==
    /\ c.called
    /\ c.request # Missing
    /\ Get(c.request, 0).json \in {"number", "numeral"}
    /\ Get(c.request, 0).v >= 0

\* The income of call record c in whole dollars.
IncomeOf(c) == Get(c.request, 0).v

\* The bracket table of the tax rules in thousandths of a dollar, each bracket
\* with its own bounds, a boundary belonging to the bracket below it.
TableTax(income) ==
    CASE income <= 18200 -> 0
      [] income > 18200 /\ income <= 45000 -> (income - 18200) * 190
      [] income > 45000 /\ income <= 120000 -> 5092000 + (income - 45000) * 325
      [] income > 120000 /\ income <= 180000 -> 29467000 + (income - 120000) * 370
      [] income > 180000 -> 51667000 + (income - 180000) * 450

\* C14: for every income >= 0 the income tax that calculate_tax computes
\* follows the bracket table, each boundary in the lower bracket, and the
\* income_tax it answers is that amount rounded to cents.
C14_BracketTable ==
    IncomeGiven(taxCall) =>
        /\ taxCall.tax = TableTax(IncomeOf(taxCall))
        /\ taxCall.income_tax = round(TableTax(IncomeOf(taxCall)), 10)

\* C14 witness: the spec's example, 50000 -> 6717.00, after the boundary
\* 120000, which is taxed by the third bracket: 29467.00.
C14_Witness ==
    /\ IncomeGiven(taxPrev) /\ IncomeOf(taxPrev) = 120000
    /\ taxPrev.income_tax = 2946700
    /\ IncomeGiven(taxCall) /\ IncomeOf(taxCall) = 50000
    /\ taxCall.income_tax = 671700

\* C15: for every income >= 0 the levy is income x 0.02 when income > 23226
\* and 0 otherwise; total tax is income tax plus levy, net income is income
\* less total tax, and the effective rate is total tax / income x 100, 0 for
\* income 0; the answer holds each of them rounded to 2 decimals.
C15_LevyTotalNetRate ==
    IncomeGiven(taxCall) =>
        LET income == IncomeOf(taxCall)
            levy == IF income > 23226 THEN income * 20 ELSE 0
            totalTax == taxCall.tax + levy
            netIncome == income * 1000 - totalTax
        IN  /\ taxCall.medicare_levy = round(levy, 10)
            /\ taxCall.total_tax = round(totalTax, 10)
            /\ taxCall.net_income = round(netIncome, 10)
            /\ taxCall.effective_tax_rate =
                   IF income = 0 THEN 0 ELSE round(totalTax * 10, income)

\* C15 witness: income 0 answered with rate 0, then the first income above
\* the levy threshold, 23227, answered with levy 464.54.
C15_Witness ==
    /\ IncomeGiven(taxPrev) /\ IncomeOf(taxPrev) = 0
    /\ taxPrev.status = 200 /\ taxPrev.effective_tax_rate = 0
    /\ IncomeGiven(taxCall) /\ IncomeOf(taxCall) = 23227
    /\ taxCall.medicare_levy = 46454

\* The marginal rate of the schedule at `income`, in thousandths per dollar,
\* a boundary having the rate of the bracket below it.
MarginalRate(income) ==
    IF income <= 18200 THEN 0
    ELSE IF income <= 45000 THEN 190
    ELSE IF income <= 120000 THEN 325
    ELSE IF income <= 180000 THEN 370
    ELSE 450

\* C16: income tax is non-decreasing in income, and between two incomes it
\* grows by no less than the marginal rate just above the lower income and by
\* no more than the marginal rate at the higher income: the marginal rates
\* 0, 0.19, 0.325, 0.37, 0.45 do not decrease and the schedule does not jump
\* at a bracket boundary.
C16_MonotoneContinuousSchedule ==
    (/\ IncomeGiven(taxPrev) /\ IncomeGiven(taxCall)
     /\ IncomeOf(taxPrev) <= IncomeOf(taxCall))
    => LET income1 == IncomeOf(taxPrev)
           income2 == IncomeOf(taxCall)
           rise == taxCall.tax - taxPrev.tax
       IN  /\ taxPrev.tax <= taxCall.tax
           /\ taxPrev.income_tax <= taxCall.income_tax
           /\ rise >= MarginalRate(income1 + 1) * (income2 - income1)
           /\ rise <= MarginalRate(income2) * (income2 - income1)

\* C16 witness: the boundary 120000 and then the first income above it.
C16_Witness ==
    /\ IncomeGiven(taxPrev) /\ IncomeOf(taxPrev) = 120000
    /\ IncomeGiven(taxCall) /\ IncomeOf(taxCall) = 120001
    /\ taxCall.tax - taxPrev.tax = 370

\* C17: calculate_tax answers 400 when annual_income is missing, negative or
\* not a number, and 200 for every number >= 0 (the text of a number counted
\* as a number).
C17_InvalidIncomeRejected ==
    taxCall.called =>
        IF \/ taxCall.request = Missing
           \/ Get(taxCall.request, 0).json \in {"word", "list", "nan"}
           \/ Get(taxCall.request, 0).v < 0
        THEN taxCall.status = 400
        ELSE taxCall.status = 200 /\ taxCall.nan = {}

\* The backlog of row r at day t: the days from its nextOccurrence to t, both
\* counted, while it is due and not past its end date, and 0 otherwise.
Backlog(r, t) ==
    IF ClaimDue(r, r.user_id, t)
    THEN toordinal(t) - toordinal(r.next_occurrence) + 1
    ELSE 0

RECURSIVE TotalBacklog(_, _, _)
\* The backlogs of the records of user u in `table` at day t, added up.
TotalBacklog(table, u, t) ==
    IF table = {} THEN 0
    ELSE LET r == CHOOSE x \in table : TRUE
         IN  (IF r.user_id = u THEN Backlog(r, t) ELSE 0)
                 + TotalBacklog(table \ {r}, u, t)

\* C20: with today fixed, the rollover passes of a user come to an end: a pass
\* that emits leaves a smaller backlog than it found, for every record
\* create_expense can store, and a pass that emits nothing leaves none, so
\* that after finitely many passes every pass emits nothing.
C20_PassesRunDry ==
    [][PassStep =>
        /\ resp'.created_count > 0 =>
               TotalBacklog(expenses', resp'.user, Now)
                   < TotalBacklog(expenses, resp'.user, Now)
        /\ resp'.created_count = 0 => TotalBacklog(expenses', resp'.user, Now) = 0
    ]_vars

\* The workplaces that request body `data` names and that belong to its caller.
OwnWorkplace(data) ==
    {w \in workplaces : w.id = data.workplace_id /\ w.user_id = data.user}

\* C21: create_shift stores the pay calculated from the workplace's rates, the
\* request's hours and its date whenever the request names a workplace that
\* exists and belongs to the caller, whatever total_pay the client sent; it
\* stores the client's total_pay only when no such workplace is found.
C21_StoredPayIsCalculated ==
    [][\A data \in ShiftRequests :
          create_shift(data) /\ resp'.status = 201 =>
              \E sh \in shifts' \ shifts :
                  sh.total_pay =
                      IF OwnWorkplace(data) # {}
                      THEN LET w == CHOOSE x \in OwnWorkplace(data) : TRUE
                           IN  calculate_shift_pay(
                                   w.base_rate, data.hours, data.date,
                                   {[base_rate |-> w.base_rate,
                                     saturday_multiplier |-> w.saturday_multiplier,
                                     sunday_multiplier |-> w.sunday_multiplier]})
                      ELSE data.total_pay]_vars

\* C21 witness: a shift of the owner at the workplace is stored with the
\* calculated 160 and not with the 99 the client sent.
C21_Witness ==
    /\ calc.called
    /\ \E sh \in shifts : /\ sh.workplace_id # 0
                          /\ sh.date = <<2026, 2, 18>>
                          /\ sh.hours = 80
                          /\ sh.total_pay = 160000

\* C22: every stored shift that names a workplace names one that exists and
\* belongs to the user the shift belongs to.
C22_ShiftWorkplaceSameOwner ==
    \A sh \in shifts :
        sh.workplace_id # 0 =>
            \E w \in workplaces : w.id = sh.workplace_id /\ w.user_id = sh.user_id

\* No row of `table` has the id and belongs to user u.
NotOwned(table, id, u) == ~\E r \in table : r.id = id /\ r.user_id = u

\* The five tables of owned records.
Tables == <<workplaces, shifts, expenses, goals, categories>>

\* The request was answered 403 and no record changed.
Refused == resp'.status = 403 /\ Tables' = Tables

\* Every row of `table` that the step changed or removed belongs to the user
\* the step answered.
OnlyOwnerTouched(table, tableAfter) ==
    \A r \in table : r \notin tableAfter => r.user_id = resp'.user

\* C24 as stated: an update of a shift that does not exist or is not the
\* caller's is answered 403, whatever the body.
C24_NotOwnerAnswered403 ==
    [][\A shift_id \in 1..MaxRecords, data \in OwnShiftUpdates :
          update_shift(shift_id, data) /\ NotOwned(shifts, shift_id, data.user) =>
              resp'.status = 403]_vars

\* C24: an update or delete of a workplace, shift, expense, goal or category
\* that does not exist or is not the caller's changes no record and is answered
\* 403 (update_shift: 400 when the body is invalid, the body being validated
\* first); a record is changed or removed only by a request of its owner.
C24_NotOwnerChangesNothing ==
    [][/\ \A id \in 1..MaxRecords :
            LET u == resp'.user
            IN  /\ delete_workplace(u, id) /\ NotOwned(workplaces, id, u) => Refused
                /\ delete_shift(u, id) /\ NotOwned(shifts, id, u) => Refused
                /\ delete_expense(u, id) /\ NotOwned(expenses, id, u) => Refused
                /\ delete_goal(u, id) /\ NotOwned(goals, id, u) => Refused
                /\ delete_category(u, id) /\ NotOwned(categories, id, u) => Refused
       /\ \A id \in 1..MaxRecords, data \in OwnWorkplaceUpdates :
            update_workplace(id, data) /\ NotOwned(workplaces, id, data.user) =>
                Refused
       /\ \A id \in 1..MaxRecords, data \in OwnShiftUpdates :
            update_shift(id, data) /\ NotOwned(shifts, id, data.user) =>
                /\ Tables' = Tables
                /\ resp'.status = IF validate_shift_data(data) THEN 403 ELSE 400
       /\ OnlyOwnerTouched(workplaces, workplaces')
       /\ OnlyOwnerTouched(shifts, shifts')
       /\ OnlyOwnerTouched(expenses, expenses')
       /\ OnlyOwnerTouched(goals, goals')
       /\ OnlyOwnerTouched(categories, categories')]_vars

\* A user's update of another user's shift, with an invalid body, was answered.
C24_Witness ==
    /\ resp.op = "update_shift"
    /\ resp.status = 400
    /\ shifts # {}
    /\ \A sh \in shifts : sh.user_id # resp.user

\* The header carries, as its second word, a token signed with JWT_SECRET that
\* has not expired.
ValidHeader(header) ==
    /\ header # Missing
    /\ \E parts \in header :
          /\ Len(parts) >= 2
          /\ parts[2].kind = "signed"
          /\ parts[2].exp > today

\* C23: a call of a protected endpoint runs the handler, as the token's user,
\* only when the header carries a valid unexpired token; any other call is
\* answered 401 and leaves the stored records unchanged.
C23_HandlerOnlyWithValidToken ==
    [][\A header \in Headers :
          AuthCall(header) =>
              IF ValidHeader(header)
              THEN /\ resp'.op # "token_required"
                   /\ \E parts \in header : resp'.user = parts[2].user_id
              ELSE /\ resp'.op = "token_required"
                   /\ resp'.status = 401
                   /\ Tables' = Tables]_vars

\* A call with an expired or invalid token was answered 401 while records are
\* stored, on a day by which a token has expired.
C23_Witness ==
    /\ resp.op = "token_required"
    /\ resp.status = 401
    /\ resp.error = "Invalid or expired token"
    /\ expenses # {}
    /\ today > 1

\* C25: a rollover pass that raises leaves no inserted expense and no changed
\* nextOccurrence behind, the rows handled before the failure included.
C25_FailedPassRolledBack ==
    [][\A u \in Users, k \in 0..MaxCreates :
          process_recurring_expenses_raises(u, k) =>
              /\ resp'.status = 500
              /\ expenses' = expenses]_vars

\* A pass has failed while two records of its user were due: the failure
\* came with up to one row already handled.
C25_Witness ==
    /\ resp.op = "process_recurring_expenses"
    /\ resp.status = 500
    /\ Cardinality({r \in due_expenses(expenses, resp.user, Now) :
                       ~past_end_date(r)}) >= 2

\* Row q is row r with at most its next_occurrence changed.
SameButNext(r, q) == q = [r EXCEPT !.next_occurrence = q.next_occurrence]

\* C26: a pass of user U only inserts non-recurring expenses of U and changes
\* next_occurrence of U's due recurring records; every other row and every
\* other field stays, and no materialized instance is the source of an
\* occurrence.
C26_PassTouchesOnlyOwnDueRecords ==
    [][PassStep =>
          LET U == resp'.user
          IN  /\ \A n \in NewRows : n.user_id = U /\ n.is_recurring = FALSE
              /\ \A r \in expenses :
                    /\ \E q \in expenses' : q.id = r.id /\ SameButNext(r, q)
                    /\ r \notin expenses' => r \in due_expenses(expenses, U, Now)
              /\ \A q \in expenses' : q.id < nextExpId => \E r \in expenses : r.id = q.id
              /\ \A e \in emitted' \ emitted :
                    \E r \in expenses : r.id = e.src /\ r.notes = ""]_vars

\* A pass of one user has materialized an instance while a record of the other
\* user was due and an earlier instance of the same user was stored.
C26_Witness ==
    /\ resp.op = "process_recurring_expenses"
    /\ resp.created_count >= 1
    /\ \E r \in expenses : /\ r.user_id # resp.user
                            /\ r \in due_expenses(expenses, r.user_id, Now)
    /\ \E e \in emitted : e.pass < passNo

\* C27: whenever a step changes the next_occurrence of a record, the new date
\* is strictly later than the old one.
C27_NextOccurrenceNeverDecreases ==
    [][\A r \in expenses, q \in expenses' :
          q.id = r.id /\ q.next_occurrence # r.next_occurrence =>
              /\ r.next_occurrence # Null
              /\ q.next_occurrence # Null
              /\ StrGT(q.next_occurrence, r.next_occurrence)]_vars

\* progress = current / target * 100 is at least n (0 when target <= 0).
ProgressAtLeast(m, n) ==
    IF m.target_amount <= 0 THEN 0 >= n
    ELSE m.current_amount * 100 >= n * m.target_amount

\* The statuses that apply to entry m by the table of the milestones.
Applicable(m) ==
    {s \in {"completed", "almost_there", "halfway", "in_progress",
            "just_started", "not_started"} :
        \/ s = "completed" /\ ProgressAtLeast(m, 100)
        \/ s = "almost_there" /\ ProgressAtLeast(m, 75) /\ ~ProgressAtLeast(m, 100)
        \/ s = "halfway" /\ ProgressAtLeast(m, 50) /\ ~ProgressAtLeast(m, 75)
        \/ s = "in_progress" /\ ProgressAtLeast(m, 25) /\ ~ProgressAtLeast(m, 50)
        \/ s = "just_started" /\ ~ProgressAtLeast(m, 25)
              /\ m.target_amount > 0 /\ m.current_amount > 0
        \/ s = "not_started" /\ ~ProgressAtLeast(m, 25)
              /\ ~(m.target_amount > 0 /\ m.current_amount > 0)}

\* The rank of a status, not_started lowest.
Rank(status) ==
    CASE status = "not_started" -> 0
      [] status = "just_started" -> 1
      [] status = "in_progress" -> 2
      [] status = "halfway" -> 3
      [] status = "almost_there" -> 4
      [] status = "completed" -> 5

\* C28: every entry of the milestones carries the one status that the table
\* gives its progress, and of two goals with the same target the one with the
\* larger current_amount never has the lower status.
C28_StatusFollowsProgress ==
    /\ \A m \in milestones : Applicable(m) = {m.status}
    /\ \A m1, m2 \in milestones :
          /\ m1.target_amount = m2.target_amount
          /\ m1.current_amount <= m2.current_amount
          => Rank(m1.status) <= Rank(m2.status)

\* The milestones of two goals with one target, 74.99 and 75 percent reached.
C28_Witness ==
    \E m1, m2 \in milestones :
        /\ m1.target_amount = 10000 /\ m2.target_amount = 10000
        /\ m1.current_amount = 7499 /\ m1.status = "halfway"
        /\ m2.current_amount = 7500 /\ m2.status = "almost_there"

====
